---- MODULE Spec2Model ----
(***************************************************************************)
(* Model of the RSE startup code: RseApplication.__init__ and              *)
(* RseApplication.init_database (rse.py), and main (rse/cli.py).           *)
(*                                                                         *)
(* A bootstrap process selects the auth-cache provider, opens the two      *)
(* MongoDB handles in a loop of 10 attempts, converges the indexes of the  *)
(* events collection and seeds the counter in a second loop of 10          *)
(* attempts, registers its two routes and starts serving.  The document    *)
(* store (the indexes of db.events, the documents of db.counters) is       *)
(* shared by every process that bootstraps against it.  Every driver call  *)
(* is one step; the environment decides whether the call succeeds, raises  *)
(* pymongo.errors.AutoReconnect, raises pymongo.errors.OperationFailure or *)
(* raises some other exception.                                            *)
(***************************************************************************)
EXTENDS Integers, Sequences, FiniteSets, TLC

\* ------------------------------------------------------------------ bounds

\* Largest value of c a prior deployment may have left in the counter document.
MaxCounter == 1

\* ------------------------------------------------------- program constants

\* range(10) of both retry loops
Attempts == 10

\* pymongo.ASCENDING
ASCENDING == 1

Procs == {1, 2}

\* authcache.provider values tried: the two known ones and an unknown one
Providers == {"memcached", "cassandra", "redis"}

\* mongodb.replica-set: the default sentinel, or a replica set name
ReplicaSets == {"[none]", "rs0"}

\* rse.event-ttl values tried (120 is the default)
EventTtls == {60, 120}

\* ---------------------------------------------------------------- indexes

GetEventsIndex ==
    [name |-> "get_events",
     key |-> << <<"channel", ASCENDING>>, <<"_id", ASCENDING>>, <<"uuid", ASCENDING>> >>,
     expireAfterSeconds |-> {}]

TtlIndex(event_ttl) ==
    [name |-> "ttl",
     key |-> << <<"created_at", ASCENDING>> >>,
     expireAfterSeconds |-> {event_ttl}]

\* The two indexes older deployments created, which init_database removes.
DeprecatedIndexes ==
    { [name |-> "uuid_1_channel_1",
       key |-> << <<"uuid", ASCENDING>>, <<"channel", ASCENDING>> >>,
       expireAfterSeconds |-> {}],
      [name |-> "created_at_1",
       key |-> << <<"created_at", ASCENDING>> >>,
       expireAfterSeconds |-> {}] }

\* A 'ttl' index as some deployment left it: with either lifetime, or (the
\* case line 220 tests for) without expireAfterSeconds.
PriorTtlIndexes ==
    { TtlIndex(t) : t \in EventTtls } \cup
    { [name |-> "ttl", key |-> << <<"created_at", ASCENDING>> >>,
       expireAfterSeconds |-> {}] }

CounterDoc(c) == [_id |-> "last_known_id", c |-> c]

\* ------------------------------------------------------------------ state

VARIABLES
    config,     \* the parsed configuration: provider, replica_set, event_ttl
    indexes,    \* the indexes of db.events (besides _id_), a set of records
    counters,   \* the documents of db.counters, a sequence
    proc,       \* per bootstrap process: its locals and its position
    env         \* whether the environment injects failures into driver calls,
                \* whether the server refuses calls for reasons of its own,
                \* and whether the processes run on one host (one port 8000)

vars == <<config, indexes, counters, proc, env>>


\* ---------------------------------------------------------------- handles

\* A database handle: the client class that opened it, its read preference and
\* the replica set it was opened against.  completed (history) tells whether
\* the connect sequence that opened the handle ran to its end, line 175.
Handle(client, read_preference, replicaSet) ==
    [client |-> client, read_preference |-> read_preference,
     replicaSet |-> replicaSet, completed |-> FALSE]

\* An unbound local.
None == Handle("None", "None", "None")

\* pymongo.MongoClient(mongo_uri, read_preference=PRIMARY, ssl=use_ssl)
MasterHandle == Handle("MongoClient", "PRIMARY", "[none]")

\* GeneralClient without the test of line 153: always a plain MongoClient.
GeneralClientPlain(replica_set) == "MongoClient"

\* The general handle: a plain MongoClient when replica-set is '[none]', a
\* MongoReplicaSetClient of the named set otherwise; SECONDARY in both.
GeneralClient(replica_set) ==
    IF replica_set = "[none]" THEN "MongoClient" ELSE "MongoReplicaSetClient"

GeneralHandle(replica_set) ==
    Handle(GeneralClient(replica_set), "SECONDARY", replica_set)

\* ------------------------------------------------------------------- Init

\* A process at the first line of RseApplication.__init__.
Fresh ==
    [pc |-> "select_auth_provider",
     authtoken_cache |-> "None",
     i |-> 0,
     db_connections_ok |-> FALSE,
     connection_master |-> None,
     connection |-> None,
     mongo_db |-> None,
     mongo_db_master |-> None,
     db_events_collection_ok |-> FALSE,
     routes |-> {},
     listening |-> FALSE,
     exit_status |-> 0,
     \* history: the error logged on exit; of the last step, the driver call
     \* made (its name, the read preference of its handle), the exception
     \* raised and whether the step slept; the sleeps of the current loop
     logged |-> "",
     call |-> <<"none", "None">>,
     exc |-> "none",
     slept |-> FALSE,
     sleeps |-> 0,
     \* history: whether, when this process began its convergence, another
     \* bootstrap had finished and the store was converged
     rerun |-> FALSE]

\* A process that is not started.
Off == [Fresh EXCEPT !.pc = "off"]

Configs ==
    [provider : Providers, replica_set : ReplicaSets, event_ttl : EventTtls]

\* What a prior deployment may have left on db.events: any of the deprecated
\* indexes, the lookup index or not, a 'ttl' index of any lifetime or none.
\* The server holds no two indexes of one name or of one key, so 'created_at_1'
\* and 'ttl' (both on created_at) are never there together.
PriorIndexSets ==
    { s \in { d \cup g \cup t :
                d \in SUBSET DeprecatedIndexes,
                g \in {{}, {GetEventsIndex}},
                t \in {{}} \cup { {x} : x \in PriorTtlIndexes } } :
        \A x, y \in s : x # y => (x.name # y.name /\ x.key # y.key) }

\* What a prior deployment may have left in db.counters: nothing, or the
\* counter document with some value of c.
PriorCounters == {<< >>} \cup { <<CounterDoc(c)>> : c \in 0..MaxCounter }

InitStore ==
    /\ config \in Configs
    /\ indexes \in PriorIndexSets
    /\ counters \in PriorCounters

\* One process bootstraps; every driver call may fail.
Init ==
    /\ InitStore
    /\ proc = [p \in Procs |-> IF p = 1 THEN Fresh ELSE Off]
    /\ env = [faults |-> TRUE, refusals |-> TRUE, one_host |-> TRUE]

\* Two processes of one deployment (the same configuration, a known provider)
\* bootstrap against the same store, on one host or on two, in any
\* interleaving of their driver calls, one after the other included; the
\* driver calls fail only as the store's state makes them fail.
InitRace ==
    /\ InitStore
    /\ config.provider = "memcached"
    /\ proc = [p \in Procs |-> Fresh]
    /\ env \in [faults : {FALSE}, refusals : {FALSE}, one_host : BOOLEAN]

\* One process bootstraps; a driver call may fail transiently (AutoReconnect,
\* before or after the server applied it) or fatally, and the server refuses
\* no call for a reason of its own.
InitTransient ==
    /\ InitStore
    /\ proc = [p \in Procs |-> IF p = 1 THEN Fresh ELSE Off]
    /\ env = [faults |-> TRUE, refusals |-> FALSE, one_host |-> TRUE]

\* ------------------------------------------------------ the document store

\* 'name' in index_information()
HasIndex(ix, name) == \E x \in ix : x.name = name

\* index_information()[name]
IndexInfo(ix, name) == CHOOSE x \in ix : x.name = name

\* The server's dropIndexes: the index of that name is gone.
DropIndex(ix, name) == { x \in ix : x.name # name }

\* The server refuses an index whose name or key an existing, different
\* index already has.
IndexConflict(ix, idx) ==
    \E x \in ix : x # idx /\ (x.name = idx.name \/ x.key = idx.key)

\* The server's createIndexes, of an index that does not conflict.
CreateIndex(ix, idx) == ix \cup {idx}

\* counters.find_one({'_id': 'last_known_id'})
FindOne(docs) ==
    IF \E k \in 1..Len(docs) : docs[k]._id = "last_known_id"
    THEN <<docs[CHOOSE k \in 1..Len(docs) : docs[k]._id = "last_known_id"]>>
    ELSE << >>

\* The unique _id index: an insert of an _id that exists is a DuplicateKeyError.
DuplicateKey(docs, doc) == \E k \in 1..Len(docs) : docs[k]._id = doc._id

\* InsertDoc of a counter that starts at 1 and not at 0.
InsertDocSeedOne(docs, doc) == Append(docs, [doc EXCEPT !.c = 1])

\* counters.insert(doc), of a document whose _id is new.
InsertDoc(docs, doc) == Append(docs, doc)


\* ------------------------------------------------------------- exceptions

\* What a driver call may do besides succeed, when the environment injects
\* failures: raise AutoReconnect before the server applied the call, or some
\* exception that is neither AutoReconnect nor OperationFailure.
ConnectFaults == IF env.faults THEN {"AutoReconnect", "Exception"} ELSE {}

\* A call on an open handle may also raise AutoReconnect after the server
\* applied it (the reply is lost), or be refused by the server for a reason of
\* its own (not authorized, an index build in progress): an OperationFailure.
Refusals == IF env.refusals THEN {"OperationFailure"} ELSE {}

WriteFaults ==
    IF env.faults
    THEN {"AutoReconnect", "AutoReconnectLate", "Exception"} \cup Refusals
    ELSE {}

\* A call that only reads changes nothing, applied or not.
ReadFaults ==
    IF env.faults THEN {"AutoReconnect", "Exception"} \cup Refusals ELSE {}

\* Whether the server applied a call of that outcome.
Applied(out) == out \in {"ok", "AutoReconnectLate"}

\* isinstance(ex, pymongo.errors.AutoReconnect)
IsAutoReconnect(e) == e = "AutoReconnect"

\* isinstance(ex, pymongo.errors.OperationFailure): the server's "index not
\* found", its DuplicateKeyError and every other refusal.
IsOperationFailure(e) ==
    e \in {"IndexNotFound", "DuplicateKeyError", "OperationFailure", "IndexConflict"}

\* ---------------------------------------------------------- control flow

\* init_database has returned its handles to __init__.
Ready(p) == proc[p].pc \in {"setup_routes", "make_server", "serving"}

Aborted(p) == proc[p].pc = "aborted"

\* The desired state of the store: the lookup index, the 'ttl' index of the
\* configured lifetime and nothing else on db.events; one counter document.
Converged ==
    /\ indexes = {GetEventsIndex, TtlIndex(config.event_ttl)}
    /\ Len(counters) = 1
    /\ counters[1]._id = "last_known_id"

\* Exit with sys.exit(0): the process stops with the status of a success.
ExitStatusZero(r, msg) ==
    [r EXCEPT !.pc = "aborted", !.exit_status = 0, !.logged = msg]

\* logger.error(...); sys.exit(1)
Exit(r, msg) == [r EXCEPT !.pc = "aborted", !.exit_status = 1, !.logged = msg]

\* time.sleep(0.5)
Sleep(r) == [r EXCEPT !.slept = TRUE, !.sleeps = @ + 1]

\* A process about to make a driver call: the call is recorded.
Call(r, name, handle) ==
    [r EXCEPT !.exc = "none", !.slept = FALSE,
              !.call = <<name, handle.read_preference>>]

\* AfterConnectLoop without the check of lines 187-189.
AfterConnectLoopUnchecked(r) ==
    [r EXCEPT !.pc = "drop_uuid_1_channel_1", !.i = 0, !.sleeps = 0,
              !.db_events_collection_ok = FALSE,
              !.rerun = Converged /\ \E q \in Procs : Ready(q)]

\* Lines 187-192: after the connection loop.
AfterConnectLoop(r) ==
    IF ~r.db_connections_ok
    THEN Exit(r, "Could not set up db connections")
    ELSE [r EXCEPT !.pc = "drop_uuid_1_channel_1", !.i = 0, !.sleeps = 0,
                   !.db_events_collection_ok = FALSE,
                   !.rerun = Converged /\ \E q \in Procs : Ready(q)]

\* Line 140: the next iteration of the connection loop, or its end.
NextConnect(r) ==
    IF r.i + 1 < Attempts
    THEN [r EXCEPT !.i = @ + 1, !.pc = "open_master"]
    ELSE AfterConnectLoop(r)

\* Line 175 and the end of the loop body: the connect sequence succeeded.  The
\* body has no break, so the loop goes on to its next iteration.
ConnectSucceeded(r) ==
    NextConnect([r EXCEPT !.db_connections_ok = TRUE,
                          !.connection_master.completed = TRUE,
                          !.connection.completed = TRUE,
                          !.mongo_db.completed = TRUE,
                          !.mongo_db_master.completed = TRUE])

\* Lines 177-185: the except clauses of the connection loop.
ConnectHandler(r, e) ==
    IF IsAutoReconnect(e)
    THEN NextConnect(Sleep(r))
    ELSE Exit(r, "Error on startup while attempting to connect to DB")

\* Lines 168-171: the except clause around MongoReplicaSetClient catches every
\* Exception, AutoReconnect too, and exits.
ReplicaSetHandler(r, e) == Exit(r, "Mongo connection exception")

\* AfterEventsLoop without the test of line 246: the handles are returned
\* whether or not a convergence succeeded.
AfterEventsLoopUnchecked(r) == [r EXCEPT !.pc = "setup_routes"]

\* Lines 246-250: after the events loop.
AfterEventsLoop(r) ==
    IF ~r.db_events_collection_ok
    THEN Exit(r, "Could not setup events connections")
    ELSE [r EXCEPT !.pc = "setup_routes"]

\* NextEvents of a loop that retries without counting: while True.
NextEventsForever(r) == [r EXCEPT !.pc = "drop_uuid_1_channel_1"]

\* Line 193: the next iteration of the events loop, or its end.
NextEvents(r) ==
    IF r.i + 1 < Attempts
    THEN [r EXCEPT !.i = @ + 1, !.pc = "drop_uuid_1_channel_1"]
    ELSE AfterEventsLoop(r)

\* Lines 233-234: the convergence sequence succeeded; break.
EventsSucceeded(r) == AfterEventsLoop([r EXCEPT !.db_events_collection_ok = TRUE])

\* EventsHandler of a loop that takes a transient failure for the end of the
\* sequence: it sleeps and leaves the loop as converged.
EventsHandlerBreaks(r, e) ==
    IF IsAutoReconnect(e)
    THEN EventsSucceeded(Sleep(r))
    ELSE Exit(r, "Error on startup while attempting to initialize events collection")

\* Lines 236-244: the except clauses of the events loop.
EventsHandler(r, e) ==
    IF IsAutoReconnect(e)
    THEN NextEvents(Sleep(r))
    ELSE Exit(r, "Error on startup while attempting to initialize events collection")

\* Lines 199-201 and 205-207: except OperationFailure: pass, around each
\* removal of a deprecated index; anything else goes to the loop's clauses.
DropDeprecatedHandler(r, e, next) ==
    IF IsOperationFailure(e)
    THEN [r EXCEPT !.pc = next]
    ELSE EventsHandler(r, e)

\* ---------------------------------------------------------------- actions

\* AuthCacheFor with a default: a name that is not known gets the memcached cache.
AuthCacheForDefaulting(provider) ==
    IF provider = "cassandra" THEN "CassandraAuthCache" ELSE "MemcachedAuthCache"

\* Lines 106-110: the auth cache built for a provider name, "None" for a
\* name that is not known.
AuthCacheFor(provider) ==
    IF provider = "memcached" THEN "MemcachedAuthCache"
    ELSE IF provider = "cassandra" THEN "CassandraAuthCache"
    ELSE "None"

\* Lines 97-112: the auth-cache provider is selected by name.
SelectAuthProvider(p) ==
    LET r == proc[p] IN
    /\ r.pc = "select_auth_provider"
    /\ proc' = [proc EXCEPT ![p] =
            IF AuthCacheFor(config.provider) # "None"
            THEN [r EXCEPT !.authtoken_cache = AuthCacheFor(config.provider),
                           !.pc = "open_master"]
            ELSE Exit(r, "No auth_cache provider")]
    /\ UNCHANGED <<config, indexes, counters, env>>

\* Lines 143-148: the primary handle is opened.
OpenMaster(p) ==
    LET r == Call(proc[p], "MongoClient", MasterHandle) IN
    /\ proc[p].pc = "open_master"
    /\ \E out \in {"ok"} \cup ConnectFaults :
        proc' = [proc EXCEPT ![p] =
            IF out = "ok"
            THEN [r EXCEPT !.connection_master = MasterHandle,
                           !.mongo_db_master = MasterHandle,
                           !.pc = "open_general"]
            ELSE ConnectHandler([r EXCEPT !.exc = out], out)]
    /\ UNCHANGED <<config, indexes, counters, env>>

\* Lines 153-175: the general handle is opened, as a plain client or against
\* the configured replica set.
OpenGeneral(p) ==
    LET h == GeneralHandle(config.replica_set)
        r == Call(proc[p], h.client, h)
    IN
    /\ proc[p].pc = "open_general"
    /\ \E out \in {"ok"} \cup ConnectFaults :
        proc' = [proc EXCEPT ![p] =
            IF out = "ok"
            THEN ConnectSucceeded([r EXCEPT !.connection = h,
                                            !.mongo_db = h,
                                            !.mongo_db_master = r.connection_master])
            ELSE IF config.replica_set = "[none]"
            THEN ConnectHandler([r EXCEPT !.exc = out], out)
            ELSE ReplicaSetHandler([r EXCEPT !.exc = out], out)]
    /\ UNCHANGED <<config, indexes, counters, env>>


\* What a call raises: what the server answers, or the injected failure (an
\* AutoReconnect is the same exception whether or not the call was applied).
Raised(out, answer) ==
    IF out = "ok" THEN answer
    ELSE IF out = "AutoReconnectLate" THEN "AutoReconnect"
    ELSE out

\* Lines 197-207: a deprecated index is removed; OperationFailure is passed over.
DropDeprecated(p, name, next) ==
    LET r == Call(proc[p], "drop_index", proc[p].mongo_db_master)
        exists == HasIndex(indexes, name)
    IN
    /\ proc[p].pc = "drop_" \o name
    /\ \E out \in {"ok"} \cup WriteFaults :
        LET e == Raised(out, IF exists THEN "none" ELSE "IndexNotFound")
            done == Applied(out) /\ exists
            r1 == [r EXCEPT !.exc = e]
        IN
        /\ indexes' = IF done THEN DropIndex(indexes, name) ELSE indexes
        /\ proc' = [proc EXCEPT ![p] =
                IF e = "none" THEN [r1 EXCEPT !.pc = next]
                ELSE DropDeprecatedHandler(r1, e, next)]
    /\ UNCHANGED <<config, counters, env>>

\* events.ensure_index(key, name=..., ...): the index is created unless it is
\* there.  An index of the same name or key and other options makes the
\* server refuse (an OperationFailure) or, on old servers, ignore the call.
EnsureIndex(p, at, idx, next) ==
    LET r == Call(proc[p], "ensure_index", proc[p].mongo_db_master)
        conflict == IndexConflict(indexes, idx)
    IN
    /\ proc[p].pc = at
    /\ \E out \in {"ok"} \cup WriteFaults \cup (IF conflict THEN {"IndexConflict"} ELSE {}) :
        LET done == Applied(out) /\ ~conflict /\ idx \notin indexes
            r1 == [r EXCEPT !.exc = Raised(out, "none")]
        IN
        /\ indexes' = IF done THEN CreateIndex(indexes, idx) ELSE indexes
        /\ proc' = [proc EXCEPT ![p] =
                IF out = "ok" THEN [r1 EXCEPT !.pc = next]
                ELSE EventsHandler(r1, r1.exc)]
    /\ UNCHANGED <<config, counters, env>>

\* Lines 212-213: the lookup index.
EnsureGetEvents(p) == EnsureIndex(p, "ensure_get_events", GetEventsIndex, "index_information")

\* TtlOutdated without lines 218-221: a 'ttl' index is never dropped.
TtlOutdatedNever(index_info, event_ttl) == FALSE

\* TtlOutdated without the comparison of line 220: a 'ttl' index that is
\* there is always dropped.
TtlOutdatedAlways(index_info, event_ttl) == HasIndex(index_info, "ttl")

\* Lines 218-220: whether the 'ttl' index read has to be dropped.
TtlOutdated(index_info, event_ttl) ==
    /\ HasIndex(index_info, "ttl")
    /\ \/ IndexInfo(index_info, "ttl").expireAfterSeconds = {}
       \/ IndexInfo(index_info, "ttl").expireAfterSeconds # {event_ttl}

\* Lines 216-220: the indexes are read and the 'ttl' index is looked at.
IndexInformation(p) ==
    LET r == Call(proc[p], "index_information", proc[p].mongo_db_master) IN
    /\ proc[p].pc = "index_information"
    /\ \E out \in {"ok"} \cup ReadFaults :
        proc' = [proc EXCEPT ![p] =
            IF out = "ok"
            THEN [r EXCEPT !.pc = IF TtlOutdated(indexes, config.event_ttl)
                                  THEN "drop_ttl" ELSE "ensure_ttl"]
            ELSE EventsHandler([r EXCEPT !.exc = out], out)]
    /\ UNCHANGED <<config, indexes, counters, env>>

\* Line 221: the outdated 'ttl' index is dropped, outside any inner try.
DropTtl(p) ==
    LET r == Call(proc[p], "drop_index", proc[p].mongo_db_master)
        exists == HasIndex(indexes, "ttl")
    IN
    /\ proc[p].pc = "drop_ttl"
    /\ \E out \in {"ok"} \cup WriteFaults :
        LET e == Raised(out, IF exists THEN "none" ELSE "IndexNotFound")
            done == Applied(out) /\ exists
            r1 == [r EXCEPT !.exc = e]
        IN
        /\ indexes' = IF done THEN DropIndex(indexes, "ttl") ELSE indexes
        /\ proc' = [proc EXCEPT ![p] =
                IF e = "none" THEN [r1 EXCEPT !.pc = "ensure_ttl"]
                ELSE EventsHandler(r1, e)]
    /\ UNCHANGED <<config, counters, env>>

\* Lines 223-224: the 'ttl' index of the configured lifetime.
EnsureTtl(p) == EnsureIndex(p, "ensure_ttl", TtlIndex(config.event_ttl), "find_one")

\* Line 229: the counter document is looked up.
FindCounter(p) ==
    LET r == Call(proc[p], "find_one", proc[p].mongo_db_master) IN
    /\ proc[p].pc = "find_one"
    /\ \E out \in {"ok"} \cup ReadFaults :
        proc' = [proc EXCEPT ![p] =
            IF out = "ok"
            THEN IF FindOne(counters) = << >>
                 THEN [r EXCEPT !.pc = "insert"]
                 ELSE EventsSucceeded(r)
            ELSE EventsHandler([r EXCEPT !.exc = out], out)]
    /\ UNCHANGED <<config, indexes, counters, env>>

\* Lines 230-231: the counter document is inserted with c = 0.
InsertCounter(p) ==
    LET r == Call(proc[p], "insert", proc[p].mongo_db_master)
        doc == CounterDoc(0)
        dup == DuplicateKey(counters, doc)
    IN
    /\ proc[p].pc = "insert"
    /\ \E out \in {"ok"} \cup WriteFaults :
        LET e == Raised(out, IF dup THEN "DuplicateKeyError" ELSE "none")
            done == Applied(out) /\ ~dup
            r1 == [r EXCEPT !.exc = e]
        IN
        /\ counters' = IF done THEN InsertDoc(counters, doc) ELSE counters
        /\ proc' = [proc EXCEPT ![p] =
                IF e = "none" THEN EventsSucceeded(r1)
                ELSE EventsHandler(r1, e)]
    /\ UNCHANGED <<config, indexes, env>>

\* Lines 115-131: init_database has returned its two handles; the health
\* route gets the primary handle, the general route the general one.
SetupRoutes(p) ==
    LET r == proc[p] IN
    /\ r.pc = "setup_routes"
    /\ proc' = [proc EXCEPT ![p] =
            [r EXCEPT !.routes = {<<"/health$", r.mongo_db_master>>, <<"/.+", r.mongo_db>>},
                      !.call = <<"none", "None">>, !.exc = "none", !.slept = FALSE,
                      !.pc = "make_server"]]
    /\ UNCHANGED <<config, indexes, counters, env>>

\* Port 8000 of the host of p is bound by another process.
PortInUse(p) == env.one_host /\ \E q \in Procs \ {p} : proc[q].listening

\* An exception that nothing catches: the process ends with a traceback and
\* status 1; nothing is logged and what it had set up stays as it was.
Crash(r, e) == [r EXCEPT !.pc = "crashed", !.exit_status = 1, !.exc = e]

\* rse.py lines 259-261 (cli.py lines 25-28): make_server('', 8000, app) binds
\* port 8000 and the application is served; when the port is bound already
\* make_server raises socket.error, which nothing catches.
MakeServer(p) ==
    LET r == proc[p] IN
    /\ r.pc = "make_server"
    /\ proc' = [proc EXCEPT ![p] =
            IF PortInUse(p) THEN Crash(r, "socket.error")
            ELSE [r EXCEPT !.listening = TRUE, !.pc = "serving"]]
    /\ UNCHANGED <<config, indexes, counters, env>>

Next ==
    \E p \in Procs :
        \/ SelectAuthProvider(p)
        \/ OpenMaster(p)
        \/ OpenGeneral(p)
        \/ DropDeprecated(p, "uuid_1_channel_1", "drop_created_at_1")
        \/ DropDeprecated(p, "created_at_1", "ensure_get_events")
        \/ EnsureGetEvents(p)
        \/ IndexInformation(p)
        \/ DropTtl(p)
        \/ EnsureTtl(p)
        \/ FindCounter(p)
        \/ InsertCounter(p)
        \/ SetupRoutes(p)
        \/ MakeServer(p)

Spec == Init /\ [][Next]_vars

SpecRace == InitRace /\ [][Next]_vars

SpecTransient == InitTransient /\ [][Next]_vars

\* A process that bootstrapped with every call succeeding and is serving.
Served(cfg) ==
    [Fresh EXCEPT
        !.pc = "serving",
        !.authtoken_cache = AuthCacheFor(cfg.provider),
        !.db_connections_ok = TRUE,
        !.connection_master = [MasterHandle EXCEPT !.completed = TRUE],
        !.connection = [GeneralHandle(cfg.replica_set) EXCEPT !.completed = TRUE],
        !.mongo_db = [GeneralHandle(cfg.replica_set) EXCEPT !.completed = TRUE],
        !.mongo_db_master = [MasterHandle EXCEPT !.completed = TRUE],
        !.db_events_collection_ok = TRUE,
        !.routes = {<<"/health$", [MasterHandle EXCEPT !.completed = TRUE]>>,
                    <<"/.+", [GeneralHandle(cfg.replica_set) EXCEPT !.completed = TRUE]>>},
        !.listening = TRUE]

\* One process bootstraps, every driver call may fail, and an instance
\* started before may still be serving on the host, whatever has become of
\* the store since it started.
InitHost ==
    /\ InitStore
    /\ \E older \in {Off} \cup (IF AuthCacheFor(config.provider) # "None"
                                THEN {Served(config)} ELSE {}) :
           proc = [p \in Procs |-> IF p = 1 THEN Fresh ELSE older]
    /\ env = [faults |-> TRUE, refusals |-> TRUE, one_host |-> TRUE]

SpecHost == InitHost /\ [][Next]_vars


\* ----------------------------------------------------------------- claims

\* The errors logged by an exit from the connection phase and from the
\* events phase.
ConnectErrors ==
    {"Mongo connection exception",
     "Error on startup while attempting to connect to DB",
     "Could not set up db connections"}

EventsErrors ==
    {"Error on startup while attempting to initialize events collection",
     "Could not setup events connections"}

ConnectSteps == {"open_master", "open_general"}

EventsSteps ==
    {"drop_uuid_1_channel_1", "drop_created_at_1", "ensure_get_events",
     "index_information", "drop_ttl", "ensure_ttl", "find_one", "insert"}

\* The last driver call of p opened a handle.
ConnectCall(p) == proc[p].call[1] \in {"MongoClient", "MongoReplicaSetClient"}

\* C1: a bootstrap whose store was reachable within the retry budget reaches
\* READY and is not aborted: no process aborts in the connection phase after
\* one of its attempts completed the connect sequence, nor in the events
\* phase after one of its attempts completed the convergence sequence.
C1_ReachableStoreNotAborted ==
    \A p \in Procs :
        Aborted(p) =>
            /\ proc[p].logged \in ConnectErrors => ~proc[p].db_connections_ok
            /\ proc[p].logged \in EventsErrors => ~proc[p].db_events_collection_ok

\* C2: at READY the events collection has the lookup index 'get_events' on
\* (channel, _id, uuid), the 'ttl' index on created_at with the configured
\* lifetime, and no other index: neither deprecated index is left.
C2_ReadyIndexesConverged ==
    \A p \in Procs :
        Ready(p) => indexes = {GetEventsIndex, TtlIndex(config.event_ttl)}

\* C3: the insert that loses the race for the counter document (a
\* DuplicateKeyError) is benign: the process that made it is not aborted, and
\* one counter document exists.
C3_DuplicateKeyBenign ==
    \A p \in Procs :
        proc[p].exc = "DuplicateKeyError" =>
            /\ ~Aborted(p)
            /\ Len(counters) = 1

\* C4: an AutoReconnect raised while a handle is opened (the primary handle,
\* the plain general handle, the general handle of a replica set) makes the
\* process sleep and go on; startup is aborted after it only by the end of
\* the loop, never by the failure itself.
C4_ConnectTransientRetried ==
    \A p \in Procs :
        (ConnectCall(p) /\ proc[p].exc = "AutoReconnect") =>
            /\ proc[p].slept
            /\ Aborted(p) => proc[p].logged = "Could not set up db connections"

\* C5: no attempt of a phase is made after an attempt of that phase has
\* succeeded: a process inside the connection loop has not completed a connect
\* sequence, and one inside the events loop has not completed a convergence.
C5_SuccessEndsLoop ==
    \A p \in Procs :
        /\ proc[p].pc \in ConnectSteps => ~proc[p].db_connections_ok
        /\ proc[p].pc \in EventsSteps => ~proc[p].db_events_collection_ok


\* C6: with a provider name that is neither 'memcached' nor 'cassandra' the
\* process goes from its first step to an exit with a non-zero status: it
\* makes no driver call (no handle is opened, no index or counter operation
\* is issued), binds no handle and registers no route.
C6_UnknownProviderAbortsFirst ==
    \A p \in Procs :
        config.provider \notin {"memcached", "cassandra"} =>
            /\ proc[p].pc \in {"off", "select_auth_provider", "aborted"}
            /\ proc[p].call = <<"none", "None">>
            /\ proc[p].mongo_db = None /\ proc[p].mongo_db_master = None
            /\ proc[p].routes = {} /\ ~proc[p].listening
            /\ Aborted(p) => /\ proc[p].exit_status # 0
                             /\ proc[p].logged = "No auth_cache provider"

\* C6 witness: a process configured with 'redis' has exited.
C6_Witness ==
    \E p \in Procs : config.provider = "redis" /\ Aborted(p) /\ proc[p].exit_status = 1

\* C7: a phase whose 10 attempts all ended in a transient failure (10 sleeps
\* in the loop) ends in a fatal exit: an error is logged, the status is
\* non-zero, no handles are returned, no route is registered, nothing listens.
C7_ExhaustedRetriesAbort ==
    \A p \in Procs :
        proc[p].sleeps = Attempts =>
            /\ Aborted(p) /\ ~Ready(p)
            /\ proc[p].exit_status # 0
            /\ proc[p].logged \in {"Could not set up db connections",
                                   "Could not setup events connections"}
            /\ proc[p].routes = {} /\ ~proc[p].listening

\* C7 witness: the events loop of a connected process slept 10 times.
C7_Witness ==
    \E p \in Procs :
        /\ proc[p].sleeps = Attempts
        /\ proc[p].db_connections_ok
        /\ proc[p].call[1] \notin {"none", "MongoClient", "MongoReplicaSetClient"}

\* C8: a failure that is not an AutoReconnect (and not the "index not found"
\* of the removal of a deprecated index, which counts as success) aborts
\* startup in the step where it is raised, without a sleep.
C8_NonTransientAborts ==
    \A p \in Procs :
        ( /\ proc[p].exc \notin {"none", "AutoReconnect"}
          /\ ~( /\ proc[p].exc = "IndexNotFound"
                /\ proc[p].pc \in {"drop_created_at_1", "ensure_get_events"} ) )
        => (Aborted(p) /\ ~proc[p].slept)

\* C9: a removal of an index that the server refuses for another reason than
\* "index not found" aborts startup.
C9_OnlyIndexNotFoundPassed ==
    \A p \in Procs :
        (proc[p].call[1] = "drop_index" /\ proc[p].exc = "OperationFailure")
            => Aborted(p)

\* C10: a process that begins its convergence after another bootstrap has
\* finished and left the store converged (same event-ttl) changes neither the
\* indexes nor the counter document in any of its steps.
C10_RerunChangesNothing ==
    [][ \A p \in Procs :
          (proc[p].rerun /\ proc'[p] # proc[p]) =>
              (indexes' = indexes /\ counters' = counters) ]_vars

\* C10 witness: such a second run has completed its convergence sequence.
C10_Witness ==
    \E p \in Procs : proc[p].rerun /\ Ready(p) /\ proc[p].db_events_collection_ok


\* The indexes named 'ttl' among ix.
TtlIndexes(ix) == { x \in ix : x.name = "ttl" }

\* C11: a 'ttl' index whose lifetime is not the configured one (or that has
\* none) is dropped and then created with the configured lifetime: a step
\* removes a 'ttl' index only if it is outdated, a step creates the 'ttl'
\* index only with the configured lifetime and when none is there, so there
\* are never two, and a matching one is neither dropped nor recreated; when
\* the 'ttl' index is ensured none but the configured one is left, and at
\* READY a store that has a 'ttl' index has the configured one.
C11_TtlReconciled ==
    /\ [](\A p \in Procs :
            /\ Cardinality(TtlIndexes(indexes)) <= 1
            /\ proc[p].pc = "ensure_ttl" =>
                   TtlIndexes(indexes) \subseteq {TtlIndex(config.event_ttl)}
            /\ (Ready(p) /\ ~HasIndex(indexes, "created_at_1")) =>
                   TtlIndexes(indexes) = {TtlIndex(config.event_ttl)})
    /\ [][ /\ TtlIndexes(indexes) \ TtlIndexes(indexes') \subseteq
                 TtlIndexes(indexes) \ {TtlIndex(config.event_ttl)}
           /\ TtlIndexes(indexes') # TtlIndexes(indexes) =>
                 /\ TtlIndexes(indexes') \subseteq {TtlIndex(config.event_ttl)}
                 /\ TtlIndexes(indexes') # {} => TtlIndexes(indexes) = {} ]_vars

\* C11 witness: an outdated 'ttl' index has just been dropped and the process
\* is about to create the configured one.
C11_Witness ==
    \E p \in Procs :
        /\ proc[p].pc = "ensure_ttl"
        /\ proc[p].call[1] = "drop_index" /\ proc[p].exc = "none"
        /\ TtlIndexes(indexes) = {}


\* C12: seeding leaves exactly one counter document: an empty counters
\* collection stays empty or gets {_id: 'last_known_id', c: 0}, a collection
\* that holds the counter document is never changed, whatever its c and
\* however many convergence attempts are retried, and at READY exactly one
\* counter document is there.
C12_CounterSeededOnce ==
    /\ [](/\ Len(counters) <= 1
          /\ \A p \in Procs : Ready(p) =>
                 /\ Len(counters) = 1
                 /\ counters[1]._id = "last_known_id")
    /\ [][ /\ counters # << >> => counters' = counters
           /\ counters = << >> => counters' \in {<< >>, <<CounterDoc(0)>>} ]_vars

\* C12 witness: the counter document has just been inserted into an empty
\* collection by an attempt that followed a failed one, and the process is
\* READY.
C12_Witness ==
    \E p \in Procs :
        /\ Ready(p)
        /\ proc[p].call[1] = "insert"
        /\ proc[p].i > 0
        /\ counters = <<CounterDoc(0)>>


\* The state of the bootstrap a process is in, by the code it is about to run.
State(r) ==
    CASE r.pc = "off" -> "START"
      [] r.pc = "select_auth_provider" -> "SELECT_AUTH_PROVIDER"
      [] r.pc \in ConnectSteps -> "CONNECT"
      [] r.pc \in {"find_one", "insert"} -> "SEED_COUNTER"
      [] r.pc \in EventsSteps \ {"find_one", "insert"} -> "CONVERGE_SCHEMA"
      [] r.pc \in {"setup_routes", "make_server", "serving"} -> "READY"
      \* the bootstrap ended in READY; the server start after it failed
      [] r.pc = "crashed" -> "READY"
      [] r.pc = "aborted" -> "ABORTED"

StateOrder ==
    <<"START", "SELECT_AUTH_PROVIDER", "CONNECT", "CONVERGE_SCHEMA",
      "SEED_COUNTER", "READY", "ABORTED">>

Position(state) == CHOOSE k \in 1..Len(StateOrder) : StateOrder[k] = state

\* A step from one state to itself, to its successor, or to ABORTED.
Linear(r, s) ==
    \/ State(s) = "ABORTED"
    \/ Position(State(s)) \in {Position(State(r)), Position(State(r)) + 1}

\* Routes are registered and the socket is opened only at READY; a process
\* that aborted has a non-zero status, no route and no socket; a process whose
\* server start failed after READY has a non-zero status and no socket.
RoutesOnlyAtReady ==
    \A p \in Procs :
        /\ proc[p].routes # {} => State(proc[p]) = "READY"
        /\ proc[p].listening => State(proc[p]) = "READY" /\ proc[p].routes # {}
        /\ State(proc[p]) = "ABORTED" =>
               /\ proc[p].exit_status # 0
               /\ proc[p].routes = {}
               /\ ~proc[p].listening
        /\ proc[p].pc = "crashed" =>
               /\ proc[p].exit_status # 0
               /\ ~proc[p].listening

\* C13 as stated: the bootstrap is linear over START, SELECT_AUTH_PROVIDER,
\* CONNECT, CONVERGE_SCHEMA, SEED_COUNTER, READY, with ABORTED reachable from
\* any of them; routes and the socket come only at READY, and an abort exits
\* non-zero before any route or socket.
C13_LinearAsStated ==
    /\ []RoutesOnlyAtReady
    /\ [][\A p \in Procs : Linear(proc[p], proc'[p])]_vars

\* C13: the bootstrap is linear over START, SELECT_AUTH_PROVIDER, CONNECT,
\* CONVERGE_SCHEMA, SEED_COUNTER, READY, with ABORTED reachable from any state
\* before READY, except that a transient failure while seeding the counter
\* goes back to CONVERGE_SCHEMA (seeding is inside the convergence retry
\* loop); routes and the socket come only at READY, and an abort exits
\* non-zero before any route or socket (a make_server that fails after READY
\* ends the process non-zero too, with its routes and without a socket).
C13_LinearButSeedRetry ==
    /\ []RoutesOnlyAtReady
    /\ [][\A p \in Procs :
            \/ Linear(proc[p], proc'[p])
            \/ /\ State(proc[p]) = "SEED_COUNTER"
               /\ State(proc'[p]) = "CONVERGE_SCHEMA"
               /\ proc'[p].exc = "AutoReconnect" /\ proc'[p].slept
               /\ proc'[p].i = proc[p].i + 1 ]_vars

\* C13 witness: a transient failure while seeding has sent the process back
\* to the start of the convergence sequence.
C13_Witness ==
    \E p \in Procs :
        /\ proc[p].pc = "drop_uuid_1_channel_1"
        /\ proc[p].call[1] \in {"find_one", "insert"}
        /\ proc[p].exc = "AutoReconnect" /\ proc[p].slept


\* The handles bound to the routes of a path.
Bound(p, path) == { route[2] : route \in { x \in proc[p].routes : x[1] = path } }

\* C14: for every configuration, once the routes are registered the health
\* route is bound to one handle, a plain client of read preference PRIMARY
\* whatever the replica-set setting, and the general route to one handle of
\* read preference SECONDARY (the spec's secondary-preferred handle), a plain
\* client when replica-set is '[none]' and a client of the named replica set
\* otherwise.
C14_RoutesBoundToHandles ==
    \A p \in Procs : proc[p].routes # {} =>
        /\ { route[1] : route \in proc[p].routes } = {"/health$", "/.+"}
        /\ Cardinality(proc[p].routes) = 2
        /\ \A h \in Bound(p, "/health$") :
               /\ h.client = "MongoClient"
               /\ h.read_preference = "PRIMARY"
               /\ h.replicaSet = "[none]"
        /\ \A h \in Bound(p, "/.+") :
               /\ h.read_preference = "SECONDARY"
               /\ h.replicaSet = config.replica_set
               /\ config.replica_set = "[none]" => h.client = "MongoClient"
               /\ config.replica_set # "[none]" => h.client = "MongoReplicaSetClient"

\* C14 witness: routes registered under a configuration that names a replica
\* set.
C14_Witness ==
    \E p \in Procs :
        /\ proc[p].routes # {}
        /\ config.replica_set = "rs0"
        /\ proc[p].listening


\* The driver calls of one attempt of each loop and the steps after the
\* loops, in the order of the code.
ConnectOrder == <<"open_master", "open_general">>

EventsOrder ==
    <<"drop_uuid_1_channel_1", "drop_created_at_1", "ensure_get_events",
      "index_information", "drop_ttl", "ensure_ttl", "find_one", "insert">>

ReadyOrder == <<"setup_routes", "make_server", "serving">>

IndexOf(order, pc) == CHOOSE k \in 1..Len(order) : order[k] = pc

\* How far a process is: the driver calls its loops can have made before the
\* one it is about to make, every attempt counted in full.
Progress(r) ==
    CASE r.pc \in {"off", "select_auth_provider"} -> 0
      [] r.pc \in ConnectSteps ->
            r.i * Len(ConnectOrder) + IndexOf(ConnectOrder, r.pc)
      [] r.pc \in EventsSteps ->
            Attempts * Len(ConnectOrder)
              + r.i * Len(EventsOrder) + IndexOf(EventsOrder, r.pc)
      [] r.pc \in {"setup_routes", "make_server", "serving"} ->
            Attempts * (Len(ConnectOrder) + Len(EventsOrder))
              + IndexOf(ReadyOrder, r.pc)
      [] r.pc \in {"aborted", "crashed"} ->
            Attempts * (Len(ConnectOrder) + Len(EventsOrder))
              + Len(ReadyOrder) + 1

\* Nothing is left to run: every process is serving, has exited, or never
\* started.
Terminated ==
    \A p \in Procs : proc[p].pc \in {"off", "serving", "aborted", "crashed"}

\* C15: the bootstrap terminates in READY or ABORTED under every failure
\* pattern: every step takes the process further along a path of bounded
\* length, a process stops only aborted or after READY (serving, or ended by
\* a make_server that found the port bound), each loop is in one of its
\* Attempts attempts whatever the step that failed, and has slept at most
\* once for each attempt it made.
C15_TerminatesWithinBudget ==
    /\ [](/\ Terminated \/ ENABLED Next
          /\ \A p \in Procs :
                /\ proc[p].i \in 0..(Attempts - 1)
                /\ proc[p].sleeps <= Attempts
                /\ proc[p].pc \in ConnectSteps \cup EventsSteps =>
                       proc[p].sleeps <= proc[p].i)
    /\ [][\A p \in Procs : proc'[p] # proc[p] =>
            /\ Progress(proc'[p]) > Progress(proc[p])
            /\ proc'[p].sleeps > proc[p].sleeps =>
                   /\ proc'[p].sleeps = proc[p].sleeps + 1
                   /\ proc'[p].i = proc[p].i + 1 \/ proc[p].i = Attempts - 1 ]_vars

\* C15 witness: a process serves after its convergence failed transiently
\* Attempts - 1 times and succeeded at the last attempt.
C15_Witness ==
    \E p \in Procs :
        /\ proc[p].pc = "serving"
        /\ proc[p].i = Attempts - 1
        /\ proc[p].sleeps = Attempts - 1


\* The driver calls that change the store.
Mutations == {"drop_index", "ensure_index", "insert"}

\* C16: every index drop, index creation and counter insert is issued on the
\* primary handle, never on the general one, and only once the connection
\* loop is over and a connect sequence has succeeded.
C16_MutationsOnPrimaryAfterConnect ==
    \A p \in Procs : proc[p].call[1] \in Mutations =>
        /\ proc[p].call[2] = "PRIMARY"
        /\ proc[p].mongo_db_master.read_preference = "PRIMARY"
        /\ proc[p].db_connections_ok
        /\ proc[p].pc \notin {"select_auth_provider"} \cup ConnectSteps

\* C16 witness: the counter document has been inserted through the primary
\* handle.
C16_Witness ==
    \E p \in Procs :
        /\ proc[p].call = <<"insert", "PRIMARY">>
        /\ proc[p].exc = "none"
        /\ proc[p].db_connections_ok


\* C17: at READY the primary handle and the general handle that init_database
\* returned, and the primary handle the convergence used, come from a connect
\* attempt that completed its whole sequence, the same one for both; none is
\* left over from an attempt that ended in a transient failure.
C17_HandlesOfOneCompletedAttempt ==
    \A p \in Procs :
        /\ Ready(p) =>
               /\ proc[p].mongo_db.completed
               /\ proc[p].mongo_db_master.completed
        /\ proc[p].pc \in EventsSteps => proc[p].mongo_db_master.completed


\* What the server makes of an ensure_index it applies: the index is created
\* unless it is there or conflicts with one that is.
EnsureApplied(ix, idx) ==
    IF idx \in ix \/ IndexConflict(ix, idx) THEN ix ELSE CreateIndex(ix, idx)

\* What the server makes of a drop_index it applies.
DropApplied(ix, name) == IF HasIndex(ix, name) THEN DropIndex(ix, name) ELSE ix

\* Lines 197-231 run once without a failure on the store <<ix, docs>>: the
\* indexes and the counters they leave.
ConvergeOnce(ix, docs, event_ttl) ==
    LET dropped  == DropApplied(DropApplied(ix, "uuid_1_channel_1"), "created_at_1")
        looked   == EnsureApplied(dropped, GetEventsIndex)
        ttl_gone == IF TtlOutdated(looked, event_ttl)
                    THEN DropApplied(looked, "ttl") ELSE looked
        ensured  == EnsureApplied(ttl_gone, TtlIndex(event_ttl))
        seeded   == IF FindOne(docs) = << >>
                    THEN InsertDoc(docs, CounterDoc(0)) ELSE docs
    IN <<ensured, seeded>>

\* C18: the indexes and the counter at READY are those of one uninterrupted
\* convergence attempt on the initial store, however many attempts failed
\* transiently and wherever they failed: no step of any attempt, interrupted
\* after any prefix of its calls, changes what an uninterrupted attempt would
\* leave, and at READY the store is what an uninterrupted attempt leaves.
C18_RetriesLeaveSameStore ==
    /\ [](\A p \in Procs : Ready(p) =>
            /\ <<indexes, counters>> =
                   ConvergeOnce(indexes, counters, config.event_ttl)
            /\ indexes = {GetEventsIndex, TtlIndex(config.event_ttl)})
    /\ [][ConvergeOnce(indexes', counters', config.event_ttl) =
              ConvergeOnce(indexes, counters, config.event_ttl)]_vars

\* C18 witness: a process is READY after convergence attempts that failed
\* transiently and one that succeeded.
C18_Witness ==
    \E p \in Procs :
        /\ proc[p].pc = "setup_routes"
        /\ ~env.refusals
        /\ proc[p].i >= 2
        /\ proc[p].sleeps = proc[p].i

====
